---- MODULE Spec2Model ----
(***************************************************************************)
(* Model of baseline/train.py: the run-directory allocator                 *)
(* (increment_path) and the two training loops (mask_train,                *)
(* gender_age_train) with their running metrics and best/last checkpoints; *)
(* and of baseline/inference.py: the batched prediction loop.              *)
(*                                                                         *)
(* Strings are sequences of one-character strings, so that prefix tests,   *)
(* the regular-expression search and the decimal conversions of            *)
(* increment_path are computed character by character.                     *)
(***************************************************************************)
EXTENDS Integers, Sequences, FiniteSets, TLC

VARIABLES
    model_dir, \* args.model_dir of the training runs of this behaviour
    fs,        \* the paths that exist on the filesystem (normalised strings)
    last,      \* the last increment_path call: arguments, result, fs before it
    runs,      \* the name and save_dir of every training run started, in order
    cfg,            \* args and the dataset split of the training run
    pc,             \* where the training function is
    epoch,          \* the epoch of the for loop
    idx,            \* training batches done in this epoch
    vidx,           \* validation batches done in this epoch
    loss_value,     \* loss_value (mask_train), gender_loss_value
    age_loss_value, \* age_loss_value (gender_age_train)
    matches,        \* matches (mask_train), gender_matches
    hist,           \* what the batches of this epoch's training loop gave
    report,         \* the training log entry written by the last step
    params,         \* the model parameters: optimizer steps applied to them
    opt_steps,      \* steps taken by each optimizer
    sched,          \* last_epoch of each StepLR scheduler
    lr,             \* halvings of each optimizer's learning rate
    mode,           \* model.train() or model.eval()
    grad,           \* FALSE inside torch.no_grad()
    val_items,      \* the val_*_items lists of this epoch
    figure,         \* figure
    best_val_acc,   \* best_val_acc (mask_train), best_val_gender_acc
    best_val_loss,  \* best_val_loss
    ckpt,           \* the .pth files of save_dir, each with the parameters saved
    snap,           \* parameters, optimizers and rates as scheduler.step() left them
    val_hist,       \* per finished epoch: its metrics and what was saved
    info,        \* info.csv as read: its columns and its ImageID column
    args,        \* args.batch_size and args.voting_type of inference
    preds,       \* preds
    batch_no,    \* batches the inference loop has taken from the loader
    ipc,         \* where inference() is
    output_csv   \* output.csv, once written

pathVars == <<model_dir, fs, last, runs>>

trainVars == <<cfg, pc, epoch, idx, vidx, loss_value, age_loss_value, matches,
               hist, report, params, opt_steps, sched, lr, mode, grad,
               val_items, figure, best_val_acc, best_val_loss, ckpt, snap,
               val_hist>>

inferVars == <<info, args, preds, batch_no, ipc, output_csv>>

vars == <<pathVars, trainVars, inferVars>>

----------------------------------------------------------------------------
(* Bounds of the allocator model *)

\* at most this many entries exist before the first run starts
MaxEntries == 3
\* at most this many training runs are started
MaxRuns == 3

\* values of --model_dir
ModelDirs == { <<"m">>, <<".", "/", "m">>, <<"e", "0">> }

\* values of --name
Names == { <<"e">>, <<"e", ".", "1">> }

\* what an externally created sibling entry appends to a run path
Tails ==
    { <<>>, <<"0">>, <<"1">>, <<"2">>, <<"3">>, <<"1", "0">>, <<"x">> }

----------------------------------------------------------------------------
(* Characters and decimal conversion *)

Digits == <<"0", "1", "2", "3", "4", "5", "6", "7", "8", "9">>

IsDigit(c) == \E k \in 1..10 : Digits[k] = c

DigitVal(c) == (CHOOSE k \in 1..10 : Digits[k] = c) - 1

Max(S) == CHOOSE x \in S : \A y \in S : y <= x

Min(S) == CHOOSE x \in S : \A y \in S : x <= y

\* int(m.groups()[0]) on a string of decimal digits
RECURSIVE IntOf(_)
IntOf(ds) ==
    IF ds = <<>> THEN 0
    ELSE IntOf(SubSeq(ds, 1, Len(ds) - 1)) * 10 + DigitVal(ds[Len(ds)])

\* the {n} of the f-string: decimal digits of a natural, no leading zeros
RECURSIVE StrOf(_)
StrOf(n) ==
    IF n < 10 THEN <<Digits[n + 1]>>
    ELSE StrOf(n \div 10) \o <<Digits[(n % 10) + 1]>>

----------------------------------------------------------------------------
(* os.path.join and pathlib.Path *)

\* os.path.join(a, b) for a relative second argument
Join(a, b) ==
    IF b # <<>> /\ b[1] = "/" THEN b
    ELSE IF a = <<>> \/ a[Len(a)] = "/" THEN a \o b
    ELSE a \o <<"/">> \o b

\* s split at every "/"
RECURSIVE SplitSlash(_)
SplitSlash(s) ==
    IF s = <<>> THEN << <<>> >>
    ELSE LET rest == SplitSlash(Tail(s))
         IN  IF Head(s) = "/" THEN << <<>> >> \o rest
             ELSE << <<Head(s)>> \o Head(rest) >> \o Tail(rest)

\* Path(s).parts without the anchor: empty and "." components are dropped
Parts(s) == SelectSeq(SplitSlash(s), LAMBDA c : c # <<>> /\ c # <<".">>)

RECURSIVE JoinSlash(_)
JoinSlash(ps) ==
    IF ps = <<>> THEN <<>>
    ELSE IF Len(ps) = 1 THEN ps[1]
    ELSE ps[1] \o <<"/">> \o JoinSlash(Tail(ps))

\* str(Path(s))
PathStr(s) ==
    LET ps == Parts(s)
    IN  IF s # <<>> /\ s[1] = "/" THEN <<"/">> \o JoinSlash(ps)
        ELSE IF ps = <<>> THEN <<".">>
        ELSE JoinSlash(ps)

\* Path(s).name
PathName(s) == LET ps == Parts(s) IN IF ps = <<>> THEN <<>> ELSE ps[Len(ps)]

\* Path(s).stem: the name up to its last ".", unless that "." is the first
\* or the last character of the name
PathStem(s) ==
    LET name == PathName(s)
        dots == {k \in 1..Len(name) : name[k] = "."}
    IN  IF dots = {} THEN name
        ELSE LET i == Max(dots)
             IN  IF 1 < i /\ i < Len(name) THEN SubSeq(name, 1, i - 1)
                 ELSE name

\* Path(s).exists()
Exists(s, files) == PathStr(s) \in files

----------------------------------------------------------------------------
(* glob.glob and re.search *)

StartsWith(d, p) == Len(d) >= Len(p) /\ SubSeq(d, 1, Len(p)) = p

\* glob.glob(f"{p}*"): the entries that continue p inside p's directory
Glob(p, files) ==
    {d \in files :
        /\ StartsWith(d, p)
        /\ \A k \in (Len(p) + 1)..Len(d) : d[k] # "/"}

\* the pattern rf"%s(\d+)" % stem matches d at position i: the stem's
\* characters stand for themselves, except "." which matches any character
MatchAt(stem, d, i) ==
    /\ i + Len(stem) <= Len(d)
    /\ \A k \in 1..Len(stem) : stem[k] = "." \/ stem[k] = d[i + k - 1]
    /\ IsDigit(d[i + Len(stem)])

\* re.search(pattern, d).groups()[0]: the digits captured at the leftmost
\* match, <<>> when re.search returns None
RegexSearch(stem, d) ==
    LET at == {i \in 1..Len(d) : MatchAt(stem, d, i)}
    IN  IF at = {} THEN <<>>
        ELSE LET from == Min(at) + Len(stem)
                 to == Max({j \in from..Len(d) :
                                \A k \in from..j : IsDigit(d[k])})
             IN  SubSeq(d, from, to)

----------------------------------------------------------------------------
(* increment_path *)

\* increment_path with exist_ok ignored
increment_path_always(path, exist_ok, files) ==
    LET p == PathStr(path)
    IN  IF ~Exists(p, files) THEN p
        ELSE LET dirs == Glob(p, files)
                 groups == {RegexSearch(PathStem(p), d) : d \in dirs} \ {<<>>}
                 i == {IntOf(g) : g \in groups}
                 n == IF i # {} THEN Max(i) + 1 ELSE 2
             IN  p \o StrOf(n)

increment_path(path, exist_ok, files) ==
    LET p == PathStr(path)
    IN  IF (Exists(p, files) /\ exist_ok) \/ ~Exists(p, files) THEN p
        ELSE LET dirs == Glob(p, files)
                 groups == {RegexSearch(PathStem(p), d) : d \in dirs} \ {<<>>}
                 i == {IntOf(g) : g \in groups}
                 n == IF i # {} THEN Max(i) + 1 ELSE 2
             IN  p \o StrOf(n)

----------------------------------------------------------------------------
(* The allocator's environment *)

\* entries that exist next to the run directories before the runs start
Entries(md) == {PathStr(Join(md, nm)) \o t : nm \in Names, t \in Tails}

NoCall == [op |-> "none", path |-> <<>>, exist_ok |-> FALSE,
           result |-> <<>>, before |-> {}]

----------------------------------------------------------------------------
(* Bounds and inputs of the training model *)

\* args.epochs is at most this
MaxEpochs == 2

\* n of mask_grid_image(..., n=16, ...) / gender_age_grid_image(..., n=16, ...)
GridN == 16

Loops == {"mask_train", "gender_age_train"}

\* len(train_set), args.batch_size, args.log_interval
TrainSizes == {8}
BatchSizes == {2, 4}
LogIntervals == {2, 3}

\* (len(val_set), args.valid_batch_size)
ValSplits == { <<4, 4>>, <<4, 16>>, <<32, 16>> }

\* args.lr_decay_step
LrDecaySteps == {2}

\* loss.item() of a training batch, age_loss.item() of a training batch
TrainLosses == {1, 2}
AgeLosses == {3}

\* loss_item / gender_loss_item, age_loss_item and acc_item of a validation
\* batch
ValLosses == {1, 2}
ValAgeLosses == {1}
ValCorrect == {0, 1}

Configs ==
    [loop : Loops, epochs : 1..MaxEpochs, n_train : TrainSizes,
     batch_size : BatchSizes, log_interval : LogIntervals,
     lr_decay_step : LrDecaySteps,
     n_val : {v[1] : v \in ValSplits},
     valid_batch_size : {v[2] : v \in ValSplits}]

----------------------------------------------------------------------------
(* Floating-point values: a ratio of integers, inf or nan *)

Rat(n, d) == [k |-> "num", n |-> n, d |-> d]

Inf == [k |-> "inf", n |-> 0, d |-> 1]

NaN == [k |-> "nan", n |-> 0, d |-> 1]

\* a < b; every comparison with nan is False
Lt(a, b) ==
    IF a.k = "nan" \/ b.k = "nan" THEN FALSE
    ELSE IF a.k = "inf" THEN FALSE
    ELSE IF b.k = "inf" THEN TRUE
    ELSE a.n * b.d < b.n * a.d

\* a + b
Plus(a, b) ==
    IF a.k = "nan" \/ b.k = "nan" THEN NaN
    ELSE IF a.k = "inf" \/ b.k = "inf" THEN Inf
    ELSE Rat(a.n * b.d + b.n * a.d, a.d * b.d)

\* a / m for an integer m; numpy gives nan for 0.0 / 0 and inf for x / 0
Over(a, m) ==
    IF a.k # "num" THEN a
    ELSE IF m = 0 THEN (IF a.n = 0 THEN NaN ELSE Inf)
    ELSE Rat(a.n, a.d * m)

\* Python's min(a, b) and max(a, b): the first argument unless the second
\* compares better
PyMin(a, b) == IF Lt(b, a) THEN b ELSE a

PyMax(a, b) == IF Lt(a, b) THEN b ELSE a

RECURSIVE SumSeq(_)
\* np.sum(items)
SumSeq(xs) == IF xs = <<>> THEN 0 ELSE Head(xs) + SumSeq(Tail(xs))

----------------------------------------------------------------------------
(* The training run *)

\* len(train_loader) and len(val_loader): both loaders have drop_last=True
NTrainBatches == cfg.n_train \div cfg.batch_size

NValBatches == cfg.n_val \div cfg.valid_batch_size

\* the optimizers (each with its StepLR scheduler) of the loop
Optimizers(loop) ==
    IF loop = "mask_train" THEN {"optimizer"}
    ELSE {"gender_optimizer", "age_optimizer"}

\* what one training batch gives: loss.item(), age_loss.item() and
\* (preds == labels).sum().item()
TrainResults ==
    IF cfg.loop = "mask_train"
    THEN [loss : TrainLosses, age_loss : {0}, correct : {0, cfg.batch_size}]
    ELSE [loss : TrainLosses, age_loss : AgeLosses,
          correct : {0, cfg.batch_size}]

\* what one validation batch gives
ValResults ==
    IF cfg.loop = "mask_train"
    THEN [loss : ValLosses, age_loss : {0}, correct : ValCorrect]
    ELSE [loss : ValLosses, age_loss : ValAgeLosses, correct : ValCorrect]

NoReport == [written |-> FALSE, epoch |-> 0, idx |-> 0,
             train_loss |-> Rat(0, 1), train_age_loss |-> Rat(0, 1),
             train_acc |-> Rat(0, 1)]

NoItems == [acc |-> <<>>, loss |-> <<>>, age_loss |-> <<>>]

\* the state in which the for loop over the epochs is entered
TrainStart(c) ==
    /\ cfg = c
    /\ pc = "epoch"
    /\ epoch = 0
    /\ idx = 0
    /\ vidx = 0
    /\ loss_value = 0
    /\ age_loss_value = 0
    /\ matches = 0
    /\ hist = <<>>
    /\ report = NoReport
    /\ params = 0
    /\ opt_steps = [o \in Optimizers(c.loop) |-> 0]
    /\ sched = [o \in Optimizers(c.loop) |-> 0]
    /\ lr = [o \in Optimizers(c.loop) |-> 0]
    /\ mode = "train"
    /\ grad = TRUE
    /\ val_items = NoItems
    /\ figure = "None"
    /\ best_val_acc = Rat(0, 1)
    /\ best_val_loss = Inf
    /\ ckpt = <<>>
    /\ snap = [params |-> 0, opt_steps |-> [o \in Optimizers(c.loop) |-> 0],
               lr |-> [o \in Optimizers(c.loop) |-> 0]]
    /\ val_hist = <<>>

\* torch.save(model.module.state_dict(), f"{save_dir}/{name}")
Save(files, name, state) ==
    [f \in DOMAIN files \cup {name} |-> IF f = name THEN state ELSE files[f]]

\* the epoch's head with the accumulators set up once, before the loop
EpochStartKeeping ==
    /\ pc = "epoch"
    /\ epoch < cfg.epochs
    /\ pc' = "train"
    /\ mode' = "train"
    /\ idx' = 0
    /\ hist' = <<>>
    /\ report' = NoReport
    /\ UNCHANGED <<pathVars, inferVars>>
    /\ UNCHANGED <<cfg, epoch, vidx, loss_value, age_loss_value, matches,
                   params, opt_steps, sched, lr, grad, val_items, figure,
                   best_val_acc, best_val_loss, ckpt, snap, val_hist>>

\* for epoch in range(args.epochs): model.train() and the accumulators
EpochStart ==
    /\ pc = "epoch"
    /\ epoch < cfg.epochs
    /\ pc' = "train"
    /\ mode' = "train"
    /\ loss_value' = 0
    /\ age_loss_value' = 0
    /\ matches' = 0
    /\ idx' = 0
    /\ hist' = <<>>
    /\ report' = NoReport
    /\ UNCHANGED <<pathVars, inferVars>>
    /\ UNCHANGED <<cfg, epoch, vidx, params, opt_steps, sched, lr, grad,
                   val_items, figure, best_val_acc, best_val_loss, ckpt, snap,
                   val_hist>>

\* the for loop over the epochs is over and the function returns
Finish ==
    /\ pc = "epoch"
    /\ epoch = cfg.epochs
    /\ pc' = "done"
    /\ report' = NoReport
    /\ UNCHANGED <<pathVars, inferVars>>
    /\ UNCHANGED <<cfg, epoch, idx, vidx, loss_value, age_loss_value, matches,
                   hist, params, opt_steps, sched, lr, mode, grad, val_items,
                   figure, best_val_acc, best_val_loss, ckpt, snap, val_hist>>

\* the accumulators after the batch's loss and matches are added
Accumulate(acc, r) ==
    [loss_value |-> acc.loss_value + r.loss,
     age_loss_value |-> acc.age_loss_value + r.age_loss,
     matches |-> acc.matches + r.correct]

\* a training iteration with scheduler.step() inside the batch loop
TrainBatchStepping(r) ==
    /\ pc = "train"
    /\ idx < NTrainBatches
    /\ params' = params + Cardinality(Optimizers(cfg.loop))
    /\ opt_steps' = [o \in DOMAIN opt_steps |-> opt_steps[o] + 1]
    /\ sched' = [o \in DOMAIN sched |-> sched[o] + 1]
    /\ lr' = [o \in DOMAIN lr |-> (sched[o] + 1) \div cfg.lr_decay_step]
    /\ LET acc == Accumulate([loss_value |-> loss_value,
                              age_loss_value |-> age_loss_value,
                              matches |-> matches], r)
       IN  IF (idx + 1) % cfg.log_interval = 0
           THEN /\ report' =
                     [written |-> TRUE, epoch |-> epoch, idx |-> idx,
                      train_loss |->
                          Over(Rat(acc.loss_value, 1), cfg.log_interval),
                      train_age_loss |->
                          Over(Rat(acc.age_loss_value, 1), cfg.log_interval),
                      train_acc |->
                          Over(Over(Rat(acc.matches, 1), cfg.batch_size),
                               cfg.log_interval)]
                /\ loss_value' = 0
                /\ age_loss_value' = 0
                /\ matches' = 0
           ELSE /\ report' = NoReport
                /\ loss_value' = acc.loss_value
                /\ age_loss_value' = acc.age_loss_value
                /\ matches' = acc.matches
    /\ hist' = Append(hist, r)
    /\ idx' = idx + 1
    /\ UNCHANGED <<pathVars, inferVars>>
    /\ UNCHANGED <<cfg, pc, epoch, vidx, mode, grad, val_items,
                   figure, best_val_acc, best_val_loss, ckpt, snap, val_hist>>

\* one iteration of the training loop, its log entry included
TrainBatch(r) ==
    /\ pc = "train"
    /\ idx < NTrainBatches
    /\ params' = params + Cardinality(Optimizers(cfg.loop))
    /\ opt_steps' = [o \in DOMAIN opt_steps |-> opt_steps[o] + 1]
    /\ LET acc == Accumulate([loss_value |-> loss_value,
                              age_loss_value |-> age_loss_value,
                              matches |-> matches], r)
       IN  IF (idx + 1) % cfg.log_interval = 0
           THEN /\ report' =
                     [written |-> TRUE, epoch |-> epoch, idx |-> idx,
                      train_loss |->
                          Over(Rat(acc.loss_value, 1), cfg.log_interval),
                      train_age_loss |->
                          Over(Rat(acc.age_loss_value, 1), cfg.log_interval),
                      train_acc |->
                          Over(Over(Rat(acc.matches, 1), cfg.batch_size),
                               cfg.log_interval)]
                /\ loss_value' = 0
                /\ age_loss_value' = 0
                /\ matches' = 0
           ELSE /\ report' = NoReport
                /\ loss_value' = acc.loss_value
                /\ age_loss_value' = acc.age_loss_value
                /\ matches' = acc.matches
    /\ hist' = Append(hist, r)
    /\ idx' = idx + 1
    /\ UNCHANGED <<pathVars, inferVars>>
    /\ UNCHANGED <<cfg, pc, epoch, vidx, sched, lr, mode, grad, val_items,
                   figure, best_val_acc, best_val_loss, ckpt, snap, val_hist>>

\* scheduler.step() after the training loop, then the head of the val loop:
\* torch.no_grad(), model.eval() and the empty lists
SchedulerStep ==
    /\ pc = "train"
    /\ idx = NTrainBatches
    /\ sched' = [o \in DOMAIN sched |-> sched[o] + 1]
    /\ lr' = [o \in DOMAIN lr |-> (sched[o] + 1) \div cfg.lr_decay_step]
    /\ snap' = [params |-> params, opt_steps |-> opt_steps, lr |-> lr']
    /\ grad' = FALSE
    /\ mode' = "eval"
    /\ val_items' = NoItems
    /\ figure' = "None"
    /\ vidx' = 0
    /\ pc' = "val"
    /\ report' = NoReport
    /\ hist' = <<>>
    /\ UNCHANGED <<pathVars, inferVars>>
    /\ UNCHANGED <<cfg, epoch, idx, loss_value, age_loss_value, matches,
                   params, opt_steps, best_val_acc, best_val_loss, ckpt,
                   val_hist>>

\* a validation iteration that also runs backward() and optimizer.step()
ValBatchStepping(r) ==
    /\ pc = "val"
    /\ vidx < NValBatches
    /\ val_items' = [acc |-> Append(val_items.acc, r.correct),
                     loss |-> Append(val_items.loss, r.loss),
                     age_loss |-> Append(val_items.age_loss, r.age_loss)]
    /\ vidx' = vidx + 1
    /\ params' = params + Cardinality(Optimizers(cfg.loop))
    /\ opt_steps' = [o \in DOMAIN opt_steps |-> opt_steps[o] + 1]
    /\ IF figure = "None"
       THEN IF GridN <= cfg.valid_batch_size
            THEN figure' = "Figure" /\ pc' = pc
            ELSE figure' = figure /\ pc' = "AssertionError"
       ELSE figure' = figure /\ pc' = pc
    /\ report' = NoReport
    /\ UNCHANGED <<pathVars, inferVars>>
    /\ UNCHANGED <<cfg, epoch, idx, loss_value, age_loss_value, matches, hist,
                   sched, lr, mode, grad, best_val_acc, best_val_loss, ckpt,
                   snap, val_hist>>

\* one iteration of the validation loop; the first one builds the figure,
\* whose assert n <= batch_size ends the run when it fails
ValBatch(r) ==
    /\ pc = "val"
    /\ vidx < NValBatches
    /\ val_items' = [acc |-> Append(val_items.acc, r.correct),
                     loss |-> Append(val_items.loss, r.loss),
                     age_loss |-> Append(val_items.age_loss, r.age_loss)]
    /\ vidx' = vidx + 1
    /\ IF figure = "None"
       THEN IF GridN <= cfg.valid_batch_size
            THEN figure' = "Figure" /\ pc' = pc
            ELSE figure' = figure /\ pc' = "AssertionError"
       ELSE figure' = figure /\ pc' = pc
    /\ report' = NoReport
    /\ UNCHANGED <<pathVars, inferVars>>
    /\ UNCHANGED <<cfg, epoch, idx, loss_value, age_loss_value, matches, hist,
                   params, opt_steps, sched, lr, mode, grad, best_val_acc,
                   best_val_loss, ckpt, snap, val_hist>>

\* val_acc of mask_train, val_gender_acc of gender_age_train
ValAcc == Over(Rat(SumSeq(val_items.acc), 1), cfg.n_val)

\* val_loss of mask_train; val_gender_loss + val_age_loss of gender_age_train
ValLoss ==
    IF cfg.loop = "mask_train"
    THEN Over(Rat(SumSeq(val_items.loss), 1), NValBatches)
    ELSE Plus(Over(Rat(SumSeq(val_items.loss), 1), NValBatches),
              Over(Rat(SumSeq(val_items.age_loss), 1), NValBatches))

\* the comparison of IsBest without its strictness
IsBestOrTie ==
    IF cfg.loop = "mask_train" THEN ~Lt(ValAcc, best_val_acc)
    ELSE ~Lt(best_val_loss, ValLoss)

\* whether this epoch's model is saved as best.pth
IsBest ==
    IF cfg.loop = "mask_train" THEN Lt(best_val_acc, ValAcc)
    ELSE Lt(ValLoss, best_val_loss)

\* last.pth saved only by the epochs that do not save best.pth
SaveCheckpointsEither(files, is_best, state) ==
    IF is_best THEN Save(files, "best.pth", state)
    ELSE Save(files, "last.pth", state)

\* the two torch.save calls at the end of an epoch
SaveCheckpoints(files, is_best, state) ==
    Save(IF is_best THEN Save(files, "best.pth", state) ELSE files,
         "last.pth", state)

\* the end of the epoch: the epoch's metrics, best.pth, last.pth and the
\* logger calls. logged is whether logger.add_figure returns; with
\* figure None (no validation batch) tensorboard may raise.
EpochEnd(logged) ==
    /\ pc = "val"
    /\ vidx = NValBatches
    /\ logged \/ figure = "None"
    /\ IF cfg.loop = "mask_train"
       THEN /\ best_val_loss' = PyMin(best_val_loss, ValLoss)
            /\ best_val_acc' = IF IsBest THEN ValAcc ELSE best_val_acc
       ELSE /\ best_val_acc' = PyMax(best_val_acc, ValAcc)
            /\ best_val_loss' = IF IsBest THEN ValLoss ELSE best_val_loss
    /\ ckpt' = SaveCheckpoints(ckpt, IsBest, params)
    /\ val_hist' = Append(val_hist,
                          [acc |-> ValAcc, loss |-> ValLoss, params |-> params,
                           saved |-> ckpt'])
    /\ IF logged
       THEN pc' = "epoch" /\ epoch' = epoch + 1 /\ grad' = TRUE
       ELSE pc' = "LoggerError" /\ epoch' = epoch /\ grad' = grad
    /\ report' = NoReport
    /\ UNCHANGED <<pathVars, inferVars>>
    /\ UNCHANGED <<cfg, idx, vidx, loss_value, age_loss_value, matches, hist,
                   params, opt_steps, sched, lr, mode, val_items, figure,
                   snap>>

TrainInit == \E c \in Configs : << c.n_val, c.valid_batch_size >> \in ValSplits
                                /\ TrainStart(c)

----------------------------------------------------------------------------
(* Bounds and inputs of the inference model *)

\* rows of info.csv
MaxRows == 3
\* args.batch_size
MaxBatch == 3

ImageIDs == {"a", "b", "c", "d"}

\* what the loaded model computes for each image in eval mode: one row of
\* logits per image, whatever batch the image is in
Logits ==
    [img \in ImageIDs |->
        CASE img = "a" -> <<5, 1, 0>>
          [] img = "b" -> <<0, 0, 9>>
          [] img = "c" -> <<1, 7, 7>>
          [] img = "d" -> <<-1, -3, -2>>]

\* info.csv comes with or without an ans column; the values of that column
\* are never read
Manifests ==
    [columns : {<<"ImageID">>, <<"ImageID", "ans">>},
     ImageID : UNION {[1..n -> ImageIDs] : n \in 0..MaxRows}]

InferArgs == [batch_size : 1..MaxBatch, voting_type : {"hard", "soft"}]

----------------------------------------------------------------------------
(* inference *)

\* img_paths: os.path.join(img_root, img_id) for each row of info.ImageID,
\* named by the img_id it ends in
img_paths == info.ImageID

\* TestDataset(img_paths, ...): item k is the image of img_paths[k], and
\* there are len(img_paths) items
dataset == img_paths

\* len(loader) with drop_last=True
LoaderLenDropLast == Len(dataset) \div args.batch_size

\* len(loader) with drop_last=False
LoaderLen == (Len(dataset) + args.batch_size - 1) \div args.batch_size

\* the k-th batch (from 0) of the loader: shuffle=False takes the items in
\* order
LoaderBatch(k) ==
    SubSeq(dataset, k * args.batch_size + 1,
           Min({(k + 1) * args.batch_size, Len(dataset)}))

\* model(images)
Forward(images) == [k \in 1..Len(images) |-> Logits[images[k]]]

\* row.argmax(): the index, from 0, of the first maximal value
argmax(row) ==
    CHOOSE k \in 0..(Len(row) - 1) :
        /\ \A j \in 1..Len(row) : row[j] <= row[k + 1]
        /\ \A j \in 1..k : row[j] < row[k + 1]

\* nn.Softmax(dim=1) on one row: entry k is exp(row[k]) / sum_j exp(row[j]),
\* kept as the exponent and the exponents it is normalised by
softmax(row) == [k \in 1..Len(row) |-> [exp |-> row[k], over |-> row]]

InferIdle ==
    /\ info = [columns |-> <<"ImageID">>, ImageID |-> <<>>]
    /\ args = [batch_size |-> 1, voting_type |-> "hard"]
    /\ preds = <<>>
    /\ batch_no = 0
    /\ ipc = "idle"
    /\ output_csv = "None"

\* inference() up to the for loop over the loader
InferStart(m, a) ==
    /\ info = m
    /\ args = a
    /\ preds = <<>>
    /\ batch_no = 0
    /\ ipc = "loop"
    /\ output_csv = "None"

\* one turn of the for loop
InferBatch ==
    /\ ipc = "loop"
    /\ batch_no < LoaderLen
    /\ LET images == LoaderBatch(batch_no)
           out == Forward(images)
           pred == IF args.voting_type = "hard"
                     THEN [k \in 1..Len(out) |-> argmax(out[k])]
                     ELSE IF args.voting_type = "soft"
                            THEN [k \in 1..Len(out) |-> softmax(out[k])]
                            ELSE out
       IN  preds' = preds \o pred
    /\ batch_no' = batch_no + 1
    /\ UNCHANGED <<info, args, ipc, output_csv>>
    /\ UNCHANGED <<pathVars, trainVars>>

\* the loader is exhausted: the predictions are put next to the ImageIDs
\* and written.  pandas refuses a column whose length differs from the
\* frame's, a drop of a column that is not there, and a list of column
\* names longer than the frame is wide (an empty preds stacks to one column)
InferWrite ==
    /\ ipc = "loop"
    /\ batch_no = LoaderLen
    /\ LET n == Len(info.ImageID)
           has_ans == \E k \in 1..Len(info.columns) : info.columns[k] = "ans"
       IN  IF args.voting_type = "hard"
             THEN IF Len(preds) # n
                    THEN /\ ipc' = "ValueError"
                         /\ UNCHANGED output_csv
                    ELSE /\ ipc' = "done"
                         /\ output_csv' =
                              [columns |-> <<"ImageID", "ans">>,
                               rows |-> [k \in 1..n |->
                                           <<info.ImageID[k], preds[k]>>]]
             ELSE IF ~has_ans
                    THEN /\ ipc' = "KeyError"
                         /\ UNCHANGED output_csv
                    ELSE IF Len(preds) # n \/ n = 0
                           THEN /\ ipc' = "ValueError"
                                /\ UNCHANGED output_csv
                           ELSE /\ ipc' = "done"
                                /\ output_csv' =
                                     [columns |-> <<"ImageID", "classes">>,
                                      rows |-> [k \in 1..n |->
                                                  <<info.ImageID[k], preds[k]>>]]
    /\ UNCHANGED <<info, args, preds, batch_no>>
    /\ UNCHANGED <<pathVars, trainVars>>

InferInit ==
    /\ model_dir = <<"m">>
    /\ fs = {}
    /\ last = NoCall
    /\ runs = <<>>
    /\ TrainStart(CHOOSE c \in Configs : TRUE)
    /\ \E m \in Manifests, a \in InferArgs : InferStart(m, a)

InferNext ==
    \/ InferBatch
    \/ InferWrite

----------------------------------------------------------------------------
(* The allocator's calls *)

PathInit ==
    /\ model_dir \in ModelDirs
    /\ fs = {}
    /\ last = NoCall
    /\ runs = <<>>
    /\ TrainStart(CHOOSE c \in Configs : TRUE)
    /\ InferIdle

\* an entry is created by hand or by an earlier experiment, before the
\* runs of this behaviour start
Touch(d) ==
    /\ runs = <<>>
    /\ d \notin fs
    /\ Cardinality(fs) < MaxEntries
    /\ fs' = fs \cup {d}
    /\ last' = NoCall
    /\ UNCHANGED <<model_dir, runs>>
    /\ UNCHANGED <<trainVars, inferVars>>

\* increment_path(path, exist_ok) on its own, on the directory as the
\* earlier experiments left it
Call(path, exist_ok) ==
    /\ runs = <<>>
    /\ last' = [op |-> "call", path |-> path, exist_ok |-> exist_ok,
                result |-> increment_path(path, exist_ok, fs), before |-> fs]
    /\ UNCHANGED <<model_dir, fs, runs>>
    /\ UNCHANGED <<trainVars, inferVars>>

\* the start of mask_train / gender_age_train: save_dir is allocated, then
\* SummaryWriter(log_dir=save_dir) and config.json create it
StartRun(name) ==
    /\ Len(runs) < MaxRuns
    /\ LET path == Join(model_dir, name)
           save_dir == increment_path(path, FALSE, fs)
       IN  /\ last' = [op |-> "run", path |-> path, exist_ok |-> FALSE,
                       result |-> save_dir, before |-> fs]
           /\ fs' = fs \cup {save_dir}
           /\ runs' = Append(runs, [name |-> name, save_dir |-> save_dir])
    /\ UNCHANGED model_dir
    /\ UNCHANGED <<trainVars, inferVars>>

PathNext ==
    \/ \E d \in Entries(model_dir) : Touch(d)
    \/ \E nm \in Names, ok \in BOOLEAN : Call(Join(model_dir, nm), ok)
    \/ \E nm \in Names : StartRun(nm)


----------------------------------------------------------------------------
(* Specifications *)

\* a training run, after its save_dir is allocated
Init ==
    /\ TrainInit
    /\ model_dir = <<"m">>
    /\ fs = {}
    /\ last = NoCall
    /\ runs = <<>>
    /\ InferIdle

Next ==
    \/ EpochStart
    \/ Finish
    \/ \E r \in TrainResults : TrainBatch(r)
    \/ SchedulerStep
    \/ \E r \in ValResults : ValBatch(r)
    \/ \E logged \in BOOLEAN : EpochEnd(logged)

Spec == Init /\ [][Next]_vars

\* the allocator with the entries around it
SpecPath == PathInit /\ [][PathNext]_vars

\* a run of inference()
SpecInfer == InferInit /\ [][InferNext]_vars

----------------------------------------------------------------------------
(* Claims about increment_path, checked under SpecPath *)

\* the last call had reuse disabled and found its path on the filesystem
Collided ==
    /\ last.op # "none"
    /\ ~last.exist_ok
    /\ Exists(last.path, last.before)

\* C1: increment_path(p, exist_ok=False) on an existing p never returns a
\* path that exists, so no two training runs get the same save_dir.
C1_NeverReturnsExisting ==
    /\ Collided => last.result \notin last.before
    /\ \A i, j \in 1..Len(runs) :
           i # j => runs[i].save_dir # runs[j].save_dir

\* C3: with nothing else in the directory, the runs started with one name
\* get name, name0, name1, ... in that order.
C3_NameThenZeroOne ==
    \A nm \in Names :
        (/\ \A k \in 1..Len(runs) : runs[k].name = nm
         /\ fs = {runs[k].save_dir : k \in 1..Len(runs)})
        => \A k \in 1..Len(runs) :
               runs[k].save_dir =
                   IF k = 1 THEN PathStr(Join(model_dir, nm))
                   ELSE PathStr(Join(model_dir, nm)) \o StrOf(k - 2)

\* the numbers that existing paths carry as a suffix of p
NumericSuffixes(p, files) ==
    {IntOf(SubSeq(d, Len(p) + 1, Len(d))) :
        d \in {e \in files :
                  /\ StartsWith(e, p)
                  /\ Len(e) > Len(p)
                  /\ \A k \in (Len(p) + 1)..Len(e) : IsDigit(e[k])}}

\* C4: for an existing p with reuse disabled the result is p followed by
\* the largest numeric suffix among the existing paths that start with p,
\* plus one, and p followed by 2 when there is no such suffix.
C4_MaxSuffixPlusOne ==
    Collided =>
        LET p == PathStr(last.path)
            nums == NumericSuffixes(p, last.before)
        IN  last.result =
                p \o StrOf(IF nums = {} THEN 2 ELSE Max(nums) + 1)

\* C5: a path that does not exist, or that exists with exist_ok, comes back
\* as the same path (character for character when it is written in
\* pathlib's normal form), and the call leaves the filesystem as it was.
C5_ReturnedUnchanged ==
    (/\ last.op # "none"
     /\ last.exist_ok \/ ~Exists(last.path, last.before))
    => /\ Parts(last.result) = Parts(last.path)
       /\ Parts(last.result) # <<>>
       /\ PathStr(last.path) = last.path => last.result = last.path
       /\ last.op = "call" => fs = last.before

\* C5 witness: reuse of an existing ./m/e that has a numbered sibling
C5_Witness ==
    /\ last.op = "call"
    /\ last.exist_ok
    /\ last.path = <<".", "/", "m", "/", "e">>
    /\ {<<"m", "/", "e">>, <<"m", "/", "e", "1">>} \subseteq last.before
    /\ last.result = <<"m", "/", "e">>

----------------------------------------------------------------------------
(* Claims about the training loops, checked under Spec *)

BothCheckpoints == {"best.pth", "last.pth"} \subseteq DOMAIN ckpt

\* C2: once the first epoch has finished, best.pth and last.pth both exist
\* in the run directory, whatever the validation metrics were (stated for
\* the runs whose validation loader yields at least one batch).
C2_BestAndLastExist ==
    (epoch >= 1 /\ NValBatches > 0) => BothCheckpoints

\* C7: a 2-epoch run on 8 training and 4 validation samples is never
\* stopped by the assertion of the figure, and when it is over best.pth
\* and last.pth are in the run directory.
C7_TinyRunCompletes ==
    (cfg.epochs = 2 /\ cfg.n_train = 8 /\ cfg.n_val = 4)
    => /\ pc # "AssertionError"
       /\ pc = "done" => BothCheckpoints

\* the metric the loop selects best.pth by, for finished epoch k
Metric(k) ==
    IF cfg.loop = "mask_train" THEN val_hist[k].acc ELSE val_hist[k].loss

\* the value the tracked best starts from
WorstMetric == IF cfg.loop = "mask_train" THEN Rat(0, 1) ELSE Inf

TrackedBest ==
    IF cfg.loop = "mask_train" THEN best_val_acc ELSE best_val_loss

\* a is strictly better than b: higher accuracy, lower combined loss
Better(a, b) == IF cfg.loop = "mask_train" THEN Lt(b, a) ELSE Lt(a, b)

SameValue(a, b) ==
    \/ a.k = "inf" /\ b.k = "inf"
    \/ a.k = "num" /\ b.k = "num" /\ a.n * b.d = b.n * a.d

\* epoch k's metric is strictly better than the starting value and than
\* the metric of every earlier epoch (an epoch without a metric, nan, sets
\* no mark to beat)
Improved(k) ==
    /\ Better(Metric(k), WorstMetric)
    /\ \A j \in 1..(k - 1) :
           Metric(j).k = "nan" \/ Better(Metric(k), Metric(j))

\* the content of a checkpoint file after finished epoch k, <<>> if absent
SavedAfter(k, name) ==
    IF k = 0 \/ name \notin DOMAIN val_hist[k].saved THEN <<>>
    ELSE <<val_hist[k].saved[name]>>

\* C6: best.pth is written by exactly the epochs whose metric is strictly
\* better than the best seen before (a tie keeps the earlier epoch's file),
\* and the tracked best is the best metric of all finished epochs.
C6_BestIsStrictImprovement ==
    /\ \A k \in 1..Len(val_hist) :
           SavedAfter(k, "best.pth") =
               IF Improved(k) THEN <<val_hist[k].params>>
               ELSE SavedAfter(k - 1, "best.pth")
    /\ \A k \in 1..Len(val_hist) : ~Better(Metric(k), TrackedBest)
    /\ (\E k \in 1..Len(val_hist) : Metric(k).k # "nan")
       => \E k \in 1..Len(val_hist) : SameValue(Metric(k), TrackedBest)

\* C6 witness: in mask_train the second epoch ties with the first, and
\* best.pth still holds the first epoch's parameters
C6_Witness ==
    /\ cfg.loop = "mask_train"
    /\ Len(val_hist) = 2
    /\ Improved(1)
    /\ SameValue(Metric(1), Metric(2))
    /\ ckpt["best.pth"] = val_hist[1].params
    /\ ckpt["last.pth"] = val_hist[2].params
    /\ val_hist[1].params # val_hist[2].params

\* the parameters after k epochs: every batch steps every optimizer once
ParamsAfter(k) == k * NTrainBatches * Cardinality(Optimizers(cfg.loop))

\* C8: every finished epoch k, improved or not, leaves the parameters of
\* epoch k in last.pth, and an epoch that did not improve leaves best.pth
\* as it was.
C8_LastEveryEpoch ==
    /\ \A k \in 1..Len(val_hist) :
           /\ SavedAfter(k, "last.pth") = <<ParamsAfter(k)>>
           /\ ~Improved(k)
              => SavedAfter(k, "best.pth") = SavedAfter(k - 1, "best.pth")
    /\ Len(val_hist) >= 1
       => /\ "last.pth" \in DOMAIN ckpt
          /\ ckpt["last.pth"] = ParamsAfter(Len(val_hist))

\* C8 witness: in gender_age_train the second epoch is worse than the
\* first; last.pth is the second epoch's model, best.pth the first's
C8_Witness ==
    /\ cfg.loop = "gender_age_train"
    /\ Len(val_hist) = 2
    /\ Improved(1)
    /\ Better(Metric(1), Metric(2))
    /\ ckpt["last.pth"] = ParamsAfter(2)
    /\ ckpt["best.pth"] = ParamsAfter(1)
    /\ ParamsAfter(1) # ParamsAfter(2)

\* the sums of what batches from..to of this epoch gave
WindowSums(from, to) ==
    LET w == SubSeq(hist, from, to)
    IN  [loss_value |-> SumSeq([j \in 1..Len(w) |-> w[j].loss]),
         age_loss_value |-> SumSeq([j \in 1..Len(w) |-> w[j].age_loss]),
         matches |-> SumSeq([j \in 1..Len(w) |-> w[j].correct])]

Accumulators ==
    [loss_value |-> loss_value, age_loss_value |-> age_loss_value,
     matches |-> matches]

\* C9: a training log entry is written after every log_interval-th batch of
\* an epoch and reports the sums of exactly the last log_interval batches
\* of that epoch over log_interval (loss) and batch_size * log_interval
\* (correct); the accumulators are zero at the start of an epoch and after
\* a report, and hold the batches since the last report in between.
C9_ReportIsLastWindow ==
    /\ report.written
       => /\ pc = "train"
          /\ report.epoch = epoch
          /\ report.idx + 1 = idx
          /\ idx % cfg.log_interval = 0
          /\ LET w == WindowSums(idx - cfg.log_interval + 1, idx)
             IN  /\ report.train_loss = Rat(w.loss_value, cfg.log_interval)
                 /\ report.train_age_loss =
                        Rat(w.age_loss_value, cfg.log_interval)
                 /\ report.train_acc =
                        Rat(w.matches, cfg.batch_size * cfg.log_interval)
    /\ (pc = "train" /\ idx > 0 /\ idx % cfg.log_interval = 0)
       => report.written
    /\ pc = "train"
       => Accumulators =
              WindowSums(idx - (idx % cfg.log_interval) + 1, idx)

\* C9 witness: the first report of the second epoch, after a first epoch
\* that ended with a batch no report had covered
C9_Witness ==
    /\ report.written
    /\ epoch = 1
    /\ cfg.log_interval = 3
    /\ NTrainBatches = 4
    /\ idx = 3
    /\ report.train_loss.n >= 3
    /\ loss_value = 0

\* C10: during validation the parameters, the optimizers and the learning
\* rates stay as the scheduler step left them, under no_grad and eval, and
\* last.pth holds the parameters the last training batch left.
C10_ValidationChangesNothing ==
    /\ pc = "val"
       => /\ params = snap.params
          /\ opt_steps = snap.opt_steps
          /\ lr = snap.lr
          /\ ~grad
          /\ mode = "eval"
    /\ (Len(val_hist) >= 1 /\ pc \notin {"val", "AssertionError"})
       => /\ ckpt["last.pth"] = snap.params
          /\ snap.params = ParamsAfter(Len(val_hist))

\* C10 witness: an epoch with two validation batches has written last.pth
C10_Witness ==
    /\ pc = "epoch"
    /\ epoch = 1
    /\ vidx = 2
    /\ figure = "Figure"
    /\ snap.params > 0
    /\ ckpt["last.pth"] = snap.params

----------------------------------------------------------------------------
(* Claims about inference, checked under SpecInfer *)

\* p is the index, from 0, of a largest logit of row
IsLargest(row, p) ==
    /\ p \in 0..(Len(row) - 1)
    /\ \A j \in 1..Len(row) : row[j] <= row[p + 1]

\* p is what inference owes for image img under the voting type
PredictionOf(img, p) ==
    IF args.voting_type = "hard"
      THEN IsLargest(Logits[img], p)
      ELSE /\ DOMAIN p = DOMAIN Logits[img]
           /\ \A j \in DOMAIN p : /\ p[j].exp = Logits[img][j]
                                  /\ p[j].over = Logits[img]

\* C11: inference produces exactly one prediction per manifest row, in
\* manifest order, for every manifest length and every batch_size >= 1: while
\* the loop runs preds holds the predictions of the first rows, batch by
\* batch; when the loop is over there is one per row, the final partial
\* batch included; in hard mode each prediction is the index of the largest
\* logit of its image, the write never fails for a length mismatch, and
\* output.csv pairs row k's ImageID with row k's prediction; logits
\* [[5,1,0],[0,0,9]] give [0, 2].
C11_OnePredictionPerRow ==
    LET n == Len(info.ImageID)
    IN  ipc # "idle" =>
          /\ Len(preds) = Min({batch_no * args.batch_size, n})
          /\ ipc # "loop" => Len(preds) = n
          /\ \A k \in 1..Len(preds) : PredictionOf(info.ImageID[k], preds[k])
          /\ args.voting_type = "hard" =>
               /\ ipc # "ValueError"
               /\ ipc = "done" =>
                    /\ Len(output_csv.rows) = n
                    /\ \A k \in 1..n :
                         /\ output_csv.rows[k][1] = info.ImageID[k]
                         /\ IsLargest(Logits[info.ImageID[k]],
                                      output_csv.rows[k][2])
               /\ (ipc # "loop" /\ Forward(info.ImageID) = << <<5, 1, 0>>, <<0, 0, 9>> >>)
                    => preds = <<0, 2>>

\* three rows in batches of two: the last batch holds one image
C11_Witness ==
    /\ ipc = "done"
    /\ args = [batch_size |-> 2, voting_type |-> "hard"]
    /\ info.ImageID = <<"b", "a", "d">>
    /\ batch_no = 2
    /\ preds = <<2, 0, 0>>
    /\ output_csv.rows = << <<"b", 2>>, <<"a", 0>>, <<"d", 0>> >>

----------------------------------------------------------------------------
(* Claims about the order of an epoch's events, checked under Spec *)

\* the epochs whose checkpoints are written
EpochsCompleted == Len(val_hist)

\* a training batch is processed: every optimizer takes a step
TrainEvent == \E o \in DOMAIN opt_steps : opt_steps'[o] # opt_steps[o]

\* a learning-rate scheduler is stepped
SchedEvent == sched' # sched

\* a validation batch is evaluated
ValEvent == Len(val_items'.acc) = Len(val_items.acc) + 1

\* the checkpoint decision is taken and the files are written
CkptEvent == ckpt' # ckpt \/ val_hist' # val_hist

\* every scheduler has been stepped n times
SchedulersAt(n) ==
    /\ DOMAIN sched = Optimizers(cfg.loop)
    /\ Cardinality(DOMAIN sched) =
           IF cfg.loop = "mask_train" THEN 1 ELSE 2
    /\ \A o \in DOMAIN sched : sched[o] = n

\* every optimizer has taken the steps of n whole training loops
TrainedEpochs(n) ==
    /\ idx = NTrainBatches
    /\ \A o \in DOMAIN opt_steps : opt_steps[o] = n * NTrainBatches

\* C12: within every epoch the events come in the order: all training
\* batches, then exactly one step of each learning-rate scheduler, then all
\* validation batches, then the checkpoint decision and writes.  No scheduler
\* is stepped by a training batch; a training batch of epoch k+1 comes only
\* after the validation and the checkpoint write of epoch k; a run that
\* returns has done all of it once per epoch.  For mask_train (one
\* scheduler) and gender_age_train (two).
C12_EpochEventOrder ==
    [][ /\ TrainEvent =>
              /\ EpochsCompleted = epoch
              /\ SchedulersAt(epoch)
              /\ idx < NTrainBatches
              /\ \A o \in DOMAIN opt_steps :
                     opt_steps[o] = epoch * NTrainBatches + idx
              /\ ~SchedEvent /\ ~ValEvent /\ ~CkptEvent
              /\ lr' = lr
        /\ SchedEvent =>
              /\ EpochsCompleted = epoch
              /\ SchedulersAt(epoch)
              /\ TrainedEpochs(epoch + 1)
              /\ \A o \in DOMAIN sched : sched'[o] = sched[o] + 1
              /\ ~TrainEvent /\ ~ValEvent /\ ~CkptEvent
        /\ ValEvent =>
              /\ EpochsCompleted = epoch
              /\ SchedulersAt(epoch + 1)
              /\ TrainedEpochs(epoch + 1)
              /\ Len(val_items.acc) = vidx
              /\ vidx < NValBatches
              /\ ~TrainEvent /\ ~SchedEvent /\ ~CkptEvent
        /\ CkptEvent =>
              /\ EpochsCompleted = epoch
              /\ SchedulersAt(epoch + 1)
              /\ TrainedEpochs(epoch + 1)
              /\ Len(val_items.acc) = NValBatches
              /\ vidx = NValBatches
              /\ Len(val_hist') = epoch + 1
              /\ "last.pth" \in DOMAIN ckpt'
              /\ ckpt'["last.pth"] = params
              /\ ~TrainEvent /\ ~SchedEvent /\ ~ValEvent
        /\ pc' = "done" =>
              /\ epoch = cfg.epochs
              /\ EpochsCompleted = cfg.epochs
              /\ SchedulersAt(cfg.epochs)
              /\ \A o \in DOMAIN opt_steps :
                     opt_steps[o] = cfg.epochs * NTrainBatches
      ]_vars

\* a gender_age_train run of two epochs with two validation batches each has
\* returned, both schedulers stepped twice
C12_Witness ==
    /\ pc = "done"
    /\ cfg.loop = "gender_age_train"
    /\ cfg.epochs = 2
    /\ NTrainBatches = 4
    /\ NValBatches = 2
    /\ Len(val_hist) = 2
    /\ DOMAIN sched = Optimizers("gender_age_train")
    /\ \A o \in DOMAIN sched : sched[o] = 2 /\ opt_steps[o] = 8

====
